---- MODULE Spec2Model ----
(***************************************************************************)
(* tools/corpora.py: the dataset registry, the DataDownloader class and    *)
(* prepare_dataset, run by up to two operator processes that share one     *)
(* filesystem.                                                             *)
(*                                                                         *)
(* Representation.  A Python str that the code inspects character by       *)
(* character (dataset_name, because of .lower()) is a sequence of          *)
(* one-character strings; every other str is a TLA+ string.  A filesystem  *)
(* path is the sequence of its components; a URL is the sequence of the    *)
(* pieces between its "/" characters.  An optional value is a set with at  *)
(* most one element: None is {} and a given value v is {v}.                *)
(***************************************************************************)
EXTENDS Integers, Sequences, FiniteSets, TLC

\* ------------------------------------------------------------------ bounds

\* Invocations of prepare_dataset one operator makes when working alone.
MaxRuns == 2

\* Invocations of prepare_dataset each process makes in a concurrent session.
MaxCalls == 1

\* The operator processes that may run prepare_dataset at the same time.
Procs == {1, 2}

\* ------------------------------------------------------- optional values

None == {}

Some(v) == {v}

Value(opt) == CHOOSE v \in opt : TRUE

\* ------------------------------------------------------------ str helpers

LowerLetters ==
  << "a", "b", "c", "d", "e", "f", "g", "h", "i", "j", "k", "l", "m",
     "n", "o", "p", "q", "r", "s", "t", "u", "v", "w", "x", "y", "z" >>

UpperLetters ==
  << "A", "B", "C", "D", "E", "F", "G", "H", "I", "J", "K", "L", "M",
     "N", "O", "P", "Q", "R", "S", "T", "U", "V", "W", "X", "Y", "Z" >>

\* str.lower() on one character: a cased letter maps to its lowercase form,
\* anything else (digit, underscore, lowercase letter) is unchanged.
LowerChar(c) ==
  IF \E i \in 1..26 : UpperLetters[i] = c
  THEN LowerLetters[CHOOSE i \in 1..26 : UpperLetters[i] = c]
  ELSE c

UpperChar(c) ==
  IF \E i \in 1..26 : LowerLetters[i] = c
  THEN UpperLetters[CHOOSE i \in 1..26 : LowerLetters[i] = c]
  ELSE c

\* str.lower()
lower(s) == [i \in 1..Len(s) |-> LowerChar(s[i])]

\* str.upper()
upper(s) == [i \in 1..Len(s) |-> UpperChar(s[i])]

\* The str a character sequence spells.
RECURSIVE Str(_)
Str(s) == IF Len(s) = 0 THEN "" ELSE s[1] \o Str(Tail(s))

\* sep.join(parts)
RECURSIVE Join(_, _)
Join(sep, parts) ==
  IF Len(parts) = 0 THEN ""
  ELSE IF Len(parts) = 1 THEN parts[1]
  ELSE parts[1] \o sep \o Join(sep, Tail(parts))

\* f"{i:02}": decimal, zero-padded to two characters.
Format02(i) == IF i < 10 THEN "0" \o ToString(i) ELSE ToString(i)

\* os.path.basename(url): what follows the last "/".
basename(url) == url[Len(url)]

\* A URL as the shell sees it.
UrlStr(url) == Join("/", url)

\* os.path.join(a, b, ...) of relative components; also f"{a}/{b}".
PathStr(path) == Join("/", path)

\* How /bin/sh splits a command string: the pieces between blanks.  The
\* command is given as the pieces the f-string concatenates, " " standing
\* for a run of blanks; adjacent non-blank pieces form one word.
RECURSIVE ShellWords(_, _)
ShellWords(pieces, word) ==
  IF Len(pieces) = 0
  THEN IF word = "" THEN << >> ELSE << word >>
  ELSE IF pieces[1] = " "
       THEN IF word = "" THEN ShellWords(Tail(pieces), "")
            ELSE << word >> \o ShellWords(Tail(pieces), "")
       ELSE ShellWords(Tail(pieces), word \o pieces[1])

\* argv of os.system(command)
Argv(pieces) == ShellWords(pieces, "")

\* ------------------------------------------------------- module constants

\* os.environ.get('DATA_DIR', './data') with DATA_DIR unset
DEFAULT_DATA_DIR == << "./data" >>

DEFAULT_TOKENIZER_TYPE == "GPT2BPETokenizer"

GPT2_VOCAB_FP == DEFAULT_DATA_DIR \o << "gpt2-vocab.json" >>

GPT2_VOCAB_URL ==
  << "https:", "", "s3.amazonaws.com", "models.huggingface.co", "bert",
     "gpt2-vocab.json" >>

GPT2_MERGE_FP == DEFAULT_DATA_DIR \o << "gpt2-merges.txt" >>

GPT2_MERGE_URL ==
  << "https:", "", "s3.amazonaws.com", "models.huggingface.co", "bert",
     "gpt2-merges.txt" >>

\* ------------------------------------------------------ dataset variants

EyeComponents ==
  << "https:", "", "the-eye.eu", "public", "AI",
     "pile_preliminary_components" >>

EyeTrain == << "https:", "", "the-eye.eu", "public", "AI", "pile", "train" >>

Bmk == << "http:", "", "eaidata.bmk.sh", "data" >>

\* range(30) in Pile.urls
PileShards == 30

\* DataDownloader.num_docs: the base class property returns None.
BaseNumDocs == None

Enron ==
  [ name |-> "enron",
    urls |-> << Bmk \o << "enron_emails.jsonl.zst" >> >>,
    num_docs |-> Some(517401) ]

PileSubset ==
  [ name |-> "pile_00",
    urls |-> << EyeTrain \o << "00.jsonl.zst" >> >>,
    num_docs |-> BaseNumDocs ]

Pile ==
  [ name |-> "pile",
    urls |-> [ i \in 1..PileShards |->
                 EyeTrain \o << Format02(i - 1) \o ".jsonl.zst" >> ],
    num_docs |-> BaseNumDocs ]

Github ==
  [ name |-> "github",
    urls |-> << Bmk \o << "github_small.jsonl.zst" >> >>,
    num_docs |-> BaseNumDocs ]

ArXiv ==
  [ name |-> "arxiv",
    urls |-> << EyeComponents \o
      << "2020-09-08-arxiv-extracts-nofallback-until-2007-068.tar.gz" >> >>,
    num_docs |-> BaseNumDocs ]

EuroParl ==
  [ name |-> "europarl",
    urls |-> << EyeComponents \o
      << "EuroParliamentProceedings_1996_2011.jsonl.zst" >> >>,
    num_docs |-> BaseNumDocs ]

FreeLaw ==
  [ name |-> "freelaw",
    urls |-> << EyeComponents \o << "FreeLaw_Opinions.jsonl.zst" >> >>,
    num_docs |-> BaseNumDocs ]

NiH ==
  [ name |-> "nih",
    urls |-> << EyeComponents \o
      << "NIH_ExPORTER_awarded_grant_text.jsonl.zst" >> >>,
    num_docs |-> BaseNumDocs ]

PubMed ==
  [ name |-> "pubmed",
    urls |-> << EyeComponents \o << "PMC_extracts.tar.gz" >> >>,
    num_docs |-> BaseNumDocs ]

Books1 ==
  [ name |-> "books1",
    urls |-> << EyeComponents \o << "books1.tar.gz" >> >>,
    num_docs |-> BaseNumDocs ]

Books3 ==
  [ name |-> "books3",
    urls |-> << EyeComponents \o << "books3.tar.gz" >> >>,
    num_docs |-> BaseNumDocs ]

HackerNews ==
  [ name |-> "hackernews",
    urls |-> << EyeComponents \o << "hn.tar.gz" >> >>,
    num_docs |-> BaseNumDocs ]

OpenWebText2 ==
  [ name |-> "openwebtext2",
    urls |-> << EyeComponents \o << "openwebtext2.jsonl.zst.tar" >> >>,
    num_docs |-> BaseNumDocs ]

StackExchange ==
  [ name |-> "stackexchange",
    urls |-> << EyeComponents \o << "stackexchange_dataset.tar" >> >>,
    num_docs |-> BaseNumDocs ]

UbuntuIRC ==
  [ name |-> "ubuntu_irc",
    urls |-> << EyeComponents \o
      << "ubuntu_irc_until_2020_9_1.jsonl.zst" >> >>,
    num_docs |-> BaseNumDocs ]

YoutubeSubtitles ==
  [ name |-> "youtube_subtitles",
    urls |-> << EyeComponents \o << "yt_subs.jsonl.zst" >> >>,
    num_docs |-> BaseNumDocs ]

\* The registry, in the dict's insertion order: <<key, class>> pairs.
DATA_DOWNLOADERS ==
  << << "enron", Enron >>,
     << "pile_subset", PileSubset >>,
     << "pile", Pile >>,
     << "github", Github >>,
     << "arxiv", ArXiv >>,
     << "europarl", EuroParl >>,
     << "freelaw", FreeLaw >>,
     << "nih", NiH >>,
     << "pubmed", PubMed >>,
     << "books1", Books1 >>,
     << "books3", Books3 >>,
     << "hackernews", HackerNews >>,
     << "openwebtext2", OpenWebText2 >>,
     << "stackexchange", StackExchange >>,
     << "ubuntu_irc", UbuntuIRC >>,
     << "youtube_subtitles", YoutubeSubtitles >> >>

\* list(DATA_DOWNLOADERS.keys())
RegistryKeys == [ i \in 1..Len(DATA_DOWNLOADERS) |-> DATA_DOWNLOADERS[i][1] ]

\* Mutant of RegistryGet: a default class instead of None.
RegistryGetOrFirst(key) ==
  IF \E i \in 1..Len(DATA_DOWNLOADERS) : DATA_DOWNLOADERS[i][1] = key
  THEN Some(DATA_DOWNLOADERS[
         CHOOSE i \in 1..Len(DATA_DOWNLOADERS) : DATA_DOWNLOADERS[i][1] = key][2])
  ELSE Some(DATA_DOWNLOADERS[1][2])

\* DATA_DOWNLOADERS.get(key, None)
RegistryGet(key) ==
  IF \E i \in 1..Len(DATA_DOWNLOADERS) : DATA_DOWNLOADERS[i][1] = key
  THEN Some(DATA_DOWNLOADERS[
         CHOOSE i \in 1..Len(DATA_DOWNLOADERS) : DATA_DOWNLOADERS[i][1] = key][2])
  ELSE None

\* ------------------------------------------------------- DataDownloader

HF_TOKENIZER_TYPE == "HFGPT2Tokenizer"

\* __init__: tokenizer_type defaults to DEFAULT_TOKENIZER_TYPE.
InitTokenizerType(tokenizer_type) ==
  IF tokenizer_type = None THEN DEFAULT_TOKENIZER_TYPE
  ELSE Value(tokenizer_type)

\* __init__: merge_file defaults to GPT2_MERGE_FP.
InitMergeFile(merge_file) ==
  IF merge_file = None THEN GPT2_MERGE_FP ELSE Value(merge_file)

\* __init__: the vocab_file the instance ends up with; None when the
\* assertion 'No vocab file provided' fails.
InitVocabFile(tokenizer_type, vocab_file) ==
  IF vocab_file # None THEN vocab_file
  ELSE IF InitTokenizerType(tokenizer_type) = DEFAULT_TOKENIZER_TYPE
       THEN Some(GPT2_VOCAB_FP)
  ELSE IF InitTokenizerType(tokenizer_type) = HF_TOKENIZER_TYPE
       THEN Some(<< "gpt2" >>)
  ELSE None

\* __init__ / prepare_dataset: data_dir defaults to DEFAULT_DATA_DIR.
InitDataDir(data_dir) ==
  IF data_dir = None THEN DEFAULT_DATA_DIR ELSE Value(data_dir)

\* DownloaderClass(tokenizer_type=..., vocab_file=..., merge_file=...,
\* data_dir=..., num_workers=...): the instance, the class attributes
\* (name, urls, num_docs) beside the fields __init__ sets.
NewDownloader(cls, a) ==
  [ name |-> cls.name,
    urls |-> cls.urls,
    num_docs |-> cls.num_docs,
    tokenizer_type |-> InitTokenizerType(a.tokenizer_type),
    merge_file |-> InitMergeFile(a.merge_file),
    vocab_file |-> Value(InitVocabFile(a.tokenizer_type, a.vocab_file)),
    base_dir |-> InitDataDir(a.data_dir),
    num_workers |-> a.num_workers ]

\* Mutant of DatasetDir: the directory named after the class's first URL
\* instead of its name attribute.
DatasetDirByFile(obj) == obj.base_dir \o << basename(obj.urls[1]) >>

\* f"{self.base_dir}/{self.name}" and os.path.join(self.base_dir, self.name)
DatasetDir(obj) == obj.base_dir \o << obj.name >>

\* Mutant of Destination: the dataset's name left out of the join.
DestinationFlat(obj, url) == obj.base_dir \o << basename(url) >>

\* os.path.join(self.base_dir, self.name, os.path.basename(url))
Destination(obj, url) == DatasetDir(obj) \o << basename(url) >>

\* Mutant of OutputPrefix: the prefix without the dataset's name.
OutputPrefixDir(obj) == DatasetDir(obj)

\* f"{parent_folder}/{self.name}"
OutputPrefix(obj) == DatasetDir(obj) \o << obj.name >>

\* Mutant of exists: the output prefix is tested instead of the directory.
existsOutputPrefix(obj, D) == OutputPrefix(obj) \in D

\* exists(): os.path.isdir of the dataset directory, given the set of
\* directories of the filesystem.
exists(obj, D) == DatasetDir(obj) \in D

\* The command of download() for one URL, as the pieces of its f-string.
WgetPieces(url, dest) ==
  << "wget", " ", UrlStr(url), " ", "-O", " ", PathStr(dest) >>

\* ",".join([os.path.join(parent_folder, os.path.basename(url)) ...])
JsonlFilepath(obj) ==
  Join(",", [ k \in 1..Len(obj.urls) |->
                PathStr(Destination(obj, obj.urls[k])) ])

\* Mutant of NumDocsPieces: the flag appended without the None test.
NumDocsPiecesAlways(num_docs) ==
  << "--num-docs", " ",
     IF num_docs = None THEN "None" ELSE ToString(Value(num_docs)) >>

\* tokenize(): the part appended when num_docs is not None.
NumDocsPieces(num_docs) ==
  IF num_docs # None
  THEN << "--num-docs", " ", ToString(Value(num_docs)) >>
  ELSE << >>

\* tokenize(): the command string, as the pieces of its f-string.
TokenizePieces(obj) ==
  << "python", " ", "tools/preprocess_data.py", " ",
     "--input", " ", JsonlFilepath(obj), " ",
     "--output-prefix", " ", PathStr(OutputPrefix(obj)), " ",
     "--vocab", " ", PathStr(obj.vocab_file), " ",
     "--dataset-impl", " ", "mmap", " ",
     "--tokenizer-type", " ", obj.tokenizer_type, " ",
     "--merge-file", " ", PathStr(obj.merge_file), " ",
     "--append-eod", " ",
     "--workers", " ", ToString(obj.num_workers), " " >>
  \o NumDocsPieces(obj.num_docs)

\* Mutant of PrepareBranch: the condition without its "not".
PrepareBranchNegated(found) ==
  IF found THEN "download_makedirs" ELSE "returned"

\* prepare(): where control goes after exists().
PrepareBranch(found) == IF found THEN "returned" ELSE "download_makedirs"

\* Mutant of AfterSystem: a non-zero exit status raises.
AfterSystemChecked(status, next) == IF status # 0 THEN "raised" ELSE next

\* os.system(cmd) as a statement: the exit status is dropped and control
\* goes on to the next statement.
AfterSystem(status, next) == next

\* ------------------------------------------------------- prepare_dataset

\* Mutant of WantsGpt2Data: the tokenizer type is not looked at.
WantsGpt2DataAlways(tokenizer_type) == TRUE

\* maybe_download_gpt2_tokenizer_data: the outer condition.
WantsGpt2Data(tokenizer_type) ==
  tokenizer_type = None \/ tokenizer_type = Some(DEFAULT_TOKENIZER_TYPE)

\* Mutant of LookupKey: the name looked up as given, without .lower().
LookupKeyAsGiven(dataset_name) == Str(dataset_name)

\* dataset_name.lower(), as the registry key it is looked up under.
LookupKey(dataset_name) == Str(lower(dataset_name))

\* The NotImplementedError of prepare_dataset.
NotRecognized(dataset_name) ==
  [ type |-> "NotImplementedError",
    dataset |-> Str(dataset_name),
    choices |-> RegistryKeys ]

AssertionFailed ==
  [ type |-> "AssertionError", dataset |-> "", choices |-> << >> ]

\* os.makedirs(..., exist_ok=True) on a path held by a non-directory.
FileExists ==
  [ type |-> "FileExistsError", dataset |-> "", choices |-> << >> ]

NoError == [ type |-> "", dataset |-> "", choices |-> << >> ]

\* ------------------------------------------------------------ filesystem

Prefixes(path) == { SubSeq(path, 1, k) : k \in 1..Len(path) }

Parent(path) == SubSeq(path, 1, Len(path) - 1)

IsUnder(path, dir) ==
  Len(path) > Len(dir) /\ SubSeq(path, 1, Len(dir)) = dir

\* os.makedirs(path, exist_ok=True) succeeds unless a component of the path
\* is a regular file.
CanMakedirs(path, F) == Prefixes(path) \cap F = {}

\* wget -O dest opens dest for writing before the transfer: it needs the
\* parent directory, and dest must not be a directory.
CanWrite(dest, D) ==
  (Len(dest) = 1 \/ Parent(dest) \in D) /\ dest \notin D

\* Exit statuses a command may end with.
Statuses(possible) == IF possible THEN {0, 1} ELSE {1}

\* ---------------------------------------------------------------- inputs

\* The registry keys, spelled as character sequences.
KeySpellings ==
  { << "e", "n", "r", "o", "n" >>,
    << "p", "i", "l", "e", "_", "s", "u", "b", "s", "e", "t" >>,
    << "p", "i", "l", "e" >>,
    << "g", "i", "t", "h", "u", "b" >>,
    << "a", "r", "x", "i", "v" >>,
    << "e", "u", "r", "o", "p", "a", "r", "l" >>,
    << "f", "r", "e", "e", "l", "a", "w" >>,
    << "n", "i", "h" >>,
    << "p", "u", "b", "m", "e", "d" >>,
    << "b", "o", "o", "k", "s", "1" >>,
    << "b", "o", "o", "k", "s", "3" >>,
    << "h", "a", "c", "k", "e", "r", "n", "e", "w", "s" >>,
    << "o", "p", "e", "n", "w", "e", "b", "t", "e", "x", "t", "2" >>,
    << "s", "t", "a", "c", "k", "e", "x", "c", "h", "a", "n", "g", "e" >>,
    << "u", "b", "u", "n", "t", "u", "_", "i", "r", "c" >>,
    << "y", "o", "u", "t", "u", "b", "e", "_", "s", "u", "b", "t", "i", "t",
       "l", "e", "s" >> }

\* dataset_name values that spell no registry key: the spec's example, and
\* the name attribute of PileSubset, which is not the key it is stored under.
UnknownNames ==
  { << "n", "o", "t", "_", "a", "_", "r", "e", "a", "l", "_", "d", "a", "t",
       "a", "s", "e", "t" >>,
    << "p", "i", "l", "e", "_", "0", "0" >>,
    << "P", "I", "L", "E", "_", "0", "0" >> }

\* dataset_name arguments: every key as stored and in upper case, and the
\* unknown names.
DatasetNames ==
  KeySpellings \cup { upper(k) : k \in KeySpellings } \cup UnknownNames

\* tokenizer_type / vocab_file arguments.
TokenizerChoices ==
  { [ tokenizer_type |-> None, vocab_file |-> None ],
    [ tokenizer_type |-> Some(DEFAULT_TOKENIZER_TYPE), vocab_file |-> None ],
    [ tokenizer_type |-> Some(HF_TOKENIZER_TYPE), vocab_file |-> None ],
    [ tokenizer_type |-> Some("CharLevelTokenizer"), vocab_file |-> None ],
    [ tokenizer_type |-> Some("CharLevelTokenizer"),
      vocab_file |-> Some(<< "vocab.json" >>) ] }

\* data_dir arguments.
DataDirChoices == { None, Some(<< "corpora" >>) }

\* The keyword arguments of prepare_dataset; merge_file and num_workers keep
\* their defaults.
MakeArgs(n, t, dd) ==
  [ dataset_name |-> n,
    tokenizer_type |-> t.tokenizer_type,
    vocab_file |-> t.vocab_file,
    merge_file |-> None,
    data_dir |-> dd,
    num_workers |-> 1 ]

\* Every dataset_name with every tokenizer choice in the default data
\* directory, and with the default tokenizer in every data directory.
AllArgs ==
  { MakeArgs(n, t, None) : n \in DatasetNames, t \in TokenizerChoices }
  \cup { MakeArgs(n, [ tokenizer_type |-> None, vocab_file |-> None ], dd) :
           n \in DatasetNames, dd \in DataDirChoices }

\* Command lines two operators run and re-run against one data directory.
SessionArgs ==
  { MakeArgs(n, t, None) :
      n \in { << "E", "n", "r", "o", "n" >>,
              << "n", "o", "t", "_", "a", "_", "r", "e", "a", "l", "_", "d",
                 "a", "t", "a", "s", "e", "t" >> },
      t \in { [ tokenizer_type |-> None, vocab_file |-> None ],
              [ tokenizer_type |-> Some(HF_TOKENIZER_TYPE),
                vocab_file |-> None ] } }

\* ----------------------------------------------------------------- state

VARIABLES
  args,       \* the arguments every invocation of this behaviour is given
  quota,      \* quota[p]: invocations process p may make
  calls,      \* calls[p]: invocations process p has started
  pc,         \* pc[p]: the statement process p is at
  d,          \* d[p]: the Downloader instance (None before construction)
  i,          \* i[p]: index of the next url in download()'s loop
  log,        \* log[p]: system calls and commands of p's current invocation
  failed,     \* failed[p]: a command of the invocation exited non-zero
  err,        \* err[p]: the exception the invocation ended with
  dirs,       \* filesystem: the directories
  files,      \* filesystem: the regular files
  tokenized   \* output prefixes the preprocessing tool has written

vars ==
  << args, quota, calls, pc, d, i, log, failed, err, dirs, files, tokenized >>

Stopped == { "idle", "returned", "raised", "killed" }

BoolStr(b) == IF b THEN "True" ELSE "False"

\* The class the run's dataset_name resolves to (None if unrecognized).
ResolvedClass(a) == RegistryGet(LookupKey(a.dataset_name))

\* Filesystems a run may start from: each tokenizer asset present or not,
\* with no dataset yet; or both assets present and the dataset path held by
\* a regular file, an empty directory (what an interrupted run leaves) or a
\* fully prepared dataset.
InitialFS(a) ==
  LET base == InitDataDir(a.data_dir)
      cls  == ResolvedClass(a)
      both == { GPT2_VOCAB_FP, GPT2_MERGE_FP }
      kinds == IF cls = None THEN { "absent" }
               ELSE { "absent", "file", "empty", "prepared" }
      starts == { c \in (SUBSET both) \X kinds :
                    c[2] = "absent" \/ c[1] = both }
      dir  == base \o << Value(cls).name >>
  IN { [ dirs |->
           (IF c[1] # {} THEN { DEFAULT_DATA_DIR } ELSE {})
           \cup (IF c[2] = "absent" THEN {}
                 ELSE IF c[2] = "file" THEN { base }
                 ELSE { base, dir }),
         files |->
           c[1]
           \cup (IF c[2] = "file" THEN { dir }
                 ELSE IF c[2] = "prepared"
                 THEN { dir \o << basename(Value(cls).urls[k]) >> :
                          k \in 1..Len(Value(cls).urls) }
                 ELSE {}),
         tokenized |->
           IF c[2] = "prepared" THEN { dir \o << Value(cls).name >> } ELSE {} ]
       : c \in starts }

Init ==
  /\ \/ /\ args \in AllArgs
        /\ quota = [ p \in Procs |-> IF p = 1 THEN MaxRuns ELSE 0 ]
     \/ /\ args \in SessionArgs
        /\ quota = [ p \in Procs |-> MaxCalls ]
  /\ \E fs \in InitialFS(args) :
       /\ dirs = fs.dirs
       /\ files = fs.files
       /\ tokenized = fs.tokenized
  /\ calls = [ p \in Procs |-> 0 ]
  /\ pc = [ p \in Procs |-> "idle" ]
  /\ d = [ p \in Procs |-> None ]
  /\ i = [ p \in Procs |-> 0 ]
  /\ log = [ p \in Procs |-> << >> ]
  /\ failed = [ p \in Procs |-> FALSE ]
  /\ err = [ p \in Procs |-> NoError ]

\* -------------------------------------------------------------- actions

\* A process starts prepare_dataset: data_dir default, os.makedirs(data_dir,
\* exist_ok=True), and the entry of maybe_download_gpt2_tokenizer_data.
Call(p) ==
  /\ pc[p] \in Stopped
  /\ calls[p] < quota[p]
  /\ calls' = [ calls EXCEPT ![p] = @ + 1 ]
  /\ d' = [ d EXCEPT ![p] = None ]
  /\ i' = [ i EXCEPT ![p] = 0 ]
  /\ failed' = [ failed EXCEPT ![p] = FALSE ]
  /\ log' = [ log EXCEPT
                ![p] = << << "makedirs", PathStr(InitDataDir(args.data_dir)) >> >> ]
  /\ IF CanMakedirs(InitDataDir(args.data_dir), files)
     THEN /\ dirs' = dirs \cup Prefixes(InitDataDir(args.data_dir))
          /\ err' = [ err EXCEPT ![p] = NoError ]
          /\ pc' = [ pc EXCEPT ![p] =
                       IF WantsGpt2Data(args.tokenizer_type)
                       THEN "vocab_isfile" ELSE "lookup" ]
     ELSE /\ dirs' = dirs
          /\ err' = [ err EXCEPT ![p] = FileExists ]
          /\ pc' = [ pc EXCEPT ![p] = "raised" ]
  /\ UNCHANGED << args, quota, files, tokenized >>

\* os.path.isfile(fp) of maybe_download_gpt2_tokenizer_data.
AssetIsfile(p, here, fp, fetch, skip) ==
  /\ pc[p] = here
  /\ log' = [ log EXCEPT
                ![p] = Append(@, << "isfile", PathStr(fp), BoolStr(fp \in files) >>) ]
  /\ pc' = [ pc EXCEPT ![p] = IF fp \in files THEN skip ELSE fetch ]
  /\ UNCHANGED << args, quota, calls, d, i, failed, err, dirs, files,
                  tokenized >>

\* os.system(f'wget {url} -O {fp}') of maybe_download_gpt2_tokenizer_data.
AssetWget(p, here, url, fp, next) ==
  /\ pc[p] = here
  /\ \E status \in Statuses(CanWrite(fp, dirs)) :
       /\ failed' = [ failed EXCEPT ![p] = @ \/ status # 0 ]
       /\ pc' = [ pc EXCEPT ![p] = AfterSystem(status, next) ]
  /\ files' = IF CanWrite(fp, dirs) THEN files \cup { fp } ELSE files
  /\ log' = [ log EXCEPT ![p] = Append(@, Argv(WgetPieces(url, fp))) ]
  /\ UNCHANGED << args, quota, calls, d, i, err, dirs, tokenized >>

VocabIsfile(p) ==
  AssetIsfile(p, "vocab_isfile", GPT2_VOCAB_FP, "vocab_wget", "merge_isfile")

VocabWget(p) ==
  AssetWget(p, "vocab_wget", GPT2_VOCAB_URL, GPT2_VOCAB_FP, "merge_isfile")

MergeIsfile(p) ==
  AssetIsfile(p, "merge_isfile", GPT2_MERGE_FP, "merge_wget", "lookup")

MergeWget(p) ==
  AssetWget(p, "merge_wget", GPT2_MERGE_URL, GPT2_MERGE_FP, "lookup")

\* DATA_DOWNLOADERS.get(dataset_name.lower(), None), then the raise or the
\* construction of the Downloader.
Lookup(p) ==
  /\ pc[p] = "lookup"
  /\ LET cls == RegistryGet(LookupKey(args.dataset_name))
     IN IF cls = None
        THEN /\ err' = [ err EXCEPT ![p] = NotRecognized(args.dataset_name) ]
             /\ pc' = [ pc EXCEPT ![p] = "raised" ]
             /\ d' = d
        ELSE IF InitVocabFile(args.tokenizer_type, args.vocab_file) = None
        THEN /\ err' = [ err EXCEPT ![p] = AssertionFailed ]
             /\ pc' = [ pc EXCEPT ![p] = "raised" ]
             /\ d' = d
        ELSE /\ d' = [ d EXCEPT ![p] = Some(NewDownloader(Value(cls), args)) ]
             /\ pc' = [ pc EXCEPT ![p] = "exists" ]
             /\ err' = err
  /\ UNCHANGED << args, quota, calls, i, log, failed, dirs, files, tokenized >>

\* prepare(): if not self.exists()
Exists(p) ==
  /\ pc[p] = "exists"
  /\ LET obj == Value(d[p])
     IN /\ log' = [ log EXCEPT
                      ![p] = Append(@, << "isdir", PathStr(DatasetDir(obj)),
                                          BoolStr(exists(obj, dirs)) >>) ]
        /\ pc' = [ pc EXCEPT ![p] = PrepareBranch(exists(obj, dirs)) ]
  /\ UNCHANGED << args, quota, calls, d, i, failed, err, dirs, files,
                  tokenized >>

\* download(): os.makedirs(os.path.join(base_dir, name), exist_ok=True)
DownloadMakedirs(p) ==
  /\ pc[p] = "download_makedirs"
  /\ LET obj == Value(d[p])
     IN /\ log' = [ log EXCEPT
                      ![p] = Append(@, << "makedirs", PathStr(DatasetDir(obj)) >>) ]
        /\ IF CanMakedirs(DatasetDir(obj), files)
           THEN /\ dirs' = dirs \cup Prefixes(DatasetDir(obj))
                /\ i' = [ i EXCEPT ![p] = 1 ]
                /\ pc' = [ pc EXCEPT ![p] =
                             IF Len(obj.urls) = 0 THEN "tokenize"
                             ELSE "download_wget" ]
                /\ err' = err
           ELSE /\ dirs' = dirs
                /\ i' = i
                /\ pc' = [ pc EXCEPT ![p] = "raised" ]
                /\ err' = [ err EXCEPT ![p] = FileExists ]
  /\ UNCHANGED << args, quota, calls, d, failed, files, tokenized >>

\* download(): one iteration of the loop, os.system(f"wget {url} -O {dest}")
DownloadWget(p) ==
  /\ pc[p] = "download_wget"
  /\ LET obj  == Value(d[p])
         url  == obj.urls[i[p]]
         dest == Destination(obj, url)
     IN /\ \E status \in Statuses(CanWrite(dest, dirs)) :
             /\ failed' = [ failed EXCEPT ![p] = @ \/ status # 0 ]
             /\ pc' = [ pc EXCEPT ![p] =
                          AfterSystem(status,
                            IF i[p] = Len(obj.urls) THEN "tokenize"
                            ELSE "download_wget") ]
        /\ files' = IF CanWrite(dest, dirs) THEN files \cup { dest } ELSE files
        /\ log' = [ log EXCEPT ![p] = Append(@, Argv(WgetPieces(url, dest))) ]
        /\ i' = [ i EXCEPT ![p] = @ + 1 ]
  /\ UNCHANGED << args, quota, calls, d, err, dirs, tokenized >>

\* tokenize(): os.system(cmd).  The tool can only succeed when its inputs
\* and its output directory are there.
Tokenize(p) ==
  /\ pc[p] = "tokenize"
  /\ LET obj == Value(d[p])
         ready == /\ DatasetDir(obj) \in dirs
                  /\ \A k \in 1..Len(obj.urls) :
                       Destination(obj, obj.urls[k]) \in files
     IN /\ \E status \in Statuses(ready) :
             /\ failed' = [ failed EXCEPT ![p] = @ \/ status # 0 ]
             /\ pc' = [ pc EXCEPT ![p] = AfterSystem(status, "returned") ]
             /\ tokenized' = IF status = 0
                             THEN tokenized \cup { OutputPrefix(obj) }
                             ELSE tokenized
        /\ log' = [ log EXCEPT ![p] = Append(@, Argv(TokenizePieces(obj))) ]
  /\ UNCHANGED << args, quota, calls, d, i, err, dirs, files >>

\* The process is killed (Ctrl-C, power loss) in the middle of an invocation.
Interrupt(p) ==
  /\ pc[p] \notin Stopped
  /\ pc' = [ pc EXCEPT ![p] = "killed" ]
  /\ UNCHANGED << args, quota, calls, d, i, log, failed, err, dirs, files,
                  tokenized >>

\* The operator removes a dataset directory, a directory right under the
\* data directory, by hand (rm -rf).
ManualCleanup ==
  /\ \E dir \in dirs :
       /\ Parent(dir) = InitDataDir(args.data_dir)
       /\ dirs' = { x \in dirs : x # dir /\ ~IsUnder(x, dir) }
       /\ files' = { x \in files : ~IsUnder(x, dir) }
       /\ tokenized' = { x \in tokenized : ~IsUnder(x, dir) }
  /\ UNCHANGED << args, quota, calls, pc, d, i, log, failed, err >>

Next ==
  \/ \E p \in Procs :
       \/ Call(p)
       \/ VocabIsfile(p)
       \/ VocabWget(p)
       \/ MergeIsfile(p)
       \/ MergeWget(p)
       \/ Lookup(p)
       \/ Exists(p)
       \/ DownloadMakedirs(p)
       \/ DownloadWget(p)
       \/ Tokenize(p)
       \/ Interrupt(p)
  \/ ManualCleanup

Spec == Init /\ [][Next]_vars

\* --------------------------------------------------- reading the log

\* Whether log entry e is a fetch issued by the wget utility.
IsWget(e) == e[1] = "wget"

\* Whether log entry e is an invocation of the preprocessing tool.
IsTokenize(e) == Len(e) >= 2 /\ e[1] = "python" /\ e[2] = "tools/preprocess_data.py"

\* Whether log entry e fetches a tokenizer asset.
IsAssetWget(e) ==
  /\ IsWget(e)
  /\ e[2] \in { "https://s3.amazonaws.com/models.huggingface.co/bert/gpt2-vocab.json",
               "https://s3.amazonaws.com/models.huggingface.co/bert/gpt2-merges.txt" }

\* Position of exists()'s check in p's log (0 before it).
IsdirAt(p) ==
  IF \E k \in 1..Len(log[p]) : log[p][k][1] = "isdir"
  THEN CHOOSE k \in 1..Len(log[p]) : log[p][k][1] = "isdir"
  ELSE 0

\* exists() returned false / true in p's current invocation.
SawAbsent(p) == IsdirAt(p) > 0 /\ log[p][IsdirAt(p)][3] = "False"

SawPresent(p) == IsdirAt(p) > 0 /\ log[p][IsdirAt(p)][3] = "True"

\* What p's invocation did after exists().
AfterExists(p) == SubSeq(log[p], IsdirAt(p) + 1, Len(log[p]))

\* The dataset directory as the claims write it: <base_dir>/<name>.
DirText(obj) == PathStr(obj.base_dir) \o "/" \o obj.name

\* The fetch the claims expect for the k-th URL of obj.
ExpectedFetch(obj, k) ==
  << "wget", UrlStr(obj.urls[k]), "-O",
     DirText(obj) \o "/" \o basename(obj.urls[k]) >>

\* The first n effects of download(): the directory, then the fetches.
ExpectedDownload(obj, n) ==
  [ k \in 1..n |-> IF k = 1 THEN << "makedirs", DirText(obj) >>
                   ELSE ExpectedFetch(obj, k - 1) ]

\* p's effects after exists() are download()'s, in order, then at most one
\* invocation of the preprocessing tool, and that only after the last fetch.
InOrder(p) ==
  LET obj == Value(d[p])
      eff == AfterExists(p)
      n   == Len(obj.urls) + 1
  IN /\ Len(eff) <= n + 1
     /\ \A k \in 1..Len(eff) :
          IF k <= n THEN eff[k] = ExpectedDownload(obj, n)[k]
          ELSE IsTokenize(eff[k])

\* p's effects after exists() are the whole sequence.
Complete(p) == InOrder(p) /\ Len(AfterExists(p)) = Len(Value(d[p]).urls) + 2

\* C1: when exists() finds the dataset directory, prepare() returns at once:
\* the step that evaluates exists() leads to the return, adds nothing but the
\* check itself to the invocation's effects, and changes nothing in the
\* filesystem.
C1_NoOpWhenPresent ==
  [][ \A p \in Procs :
        ( /\ pc[p] = "exists"
          /\ pc'[p] # "exists"
          /\ pc'[p] # "killed"
          /\ DatasetDir(Value(d[p])) \in dirs )
        => /\ pc'[p] = "returned"
           /\ log'[p] = Append(log[p], << "isdir", DirText(Value(d[p])), "True" >>)
           /\ dirs' = dirs
           /\ files' = files
           /\ tokenized' = tokenized ]_vars

\* C1 witness: a finished invocation whose last effect is the successful
\* check of a directory that is there.
C1_Witness ==
  \E p \in Procs :
    /\ pc[p] = "returned"
    /\ SawPresent(p)
    /\ IsdirAt(p) = Len(log[p])
    /\ DatasetDir(Value(d[p])) \in dirs

\* C2 as stated: every invocation that found exists() false and ended
\* without being killed has produced the whole sequence (directory, one fetch
\* per URL in order, then one preprocessing command).
C2_Original ==
  \A p \in Procs :
    (pc[p] \in { "returned", "raised" } /\ SawAbsent(p)) => Complete(p)

\* C2 amended: when exists() is false and no regular file occupies
\* <base_dir>/<name>, the effects after exists() are always a prefix of
\* (directory, one fetch per URL in order, preprocessing command) and are the
\* whole sequence once prepare() has ended; for "enron" they are the
\* directory ./data/enron, one fetch of enron_emails.jsonl.zst, one tokenize.
C2_DownloadThenTokenize ==
  \A p \in Procs :
    (SawAbsent(p) /\ DatasetDir(Value(d[p])) \notin files) =>
      /\ InOrder(p)
      /\ pc[p] \in { "returned", "raised" } => Complete(p)
      /\ ( /\ pc[p] = "returned"
           /\ Value(d[p]).name = "enron"
           /\ Value(d[p]).base_dir = << "./data" >> )
         => /\ Len(AfterExists(p)) = 3
            /\ AfterExists(p)[1] = << "makedirs", "./data/enron" >>
            /\ AfterExists(p)[2] =
                 << "wget", "http://eaidata.bmk.sh/data/enron_emails.jsonl.zst",
                    "-O", "./data/enron/enron_emails.jsonl.zst" >>
            /\ IsTokenize(AfterExists(p)[3])

\* C2 witness: a finished prepare() of a dataset with several URLs that
\* found the directory absent and tokenized.
C2_Witness ==
  \E p \in Procs :
    /\ pc[p] = "returned"
    /\ SawAbsent(p)
    /\ Len(Value(d[p]).urls) > 1
    /\ IsTokenize(log[p][Len(log[p])])

\* The registry keys as the unrecognized-dataset message must list them.
ValidKeys ==
  << "enron", "pile_subset", "pile", "github", "arxiv", "europarl",
     "freelaw", "nih", "pubmed", "books1", "books3", "hackernews",
     "openwebtext2", "stackexchange", "ubuntu_irc", "youtube_subtitles" >>

\* The lowercase form of the run's dataset_name.
LowerName == Str(lower(args.dataset_name))

IsValidKey(key) == \E k \in 1..Len(ValidKeys) : ValidKeys[k] = key

\* C3: for a dataset_name whose lowercase form is no registry key,
\* prepare_dataset never gets past the lookup and never returns normally, no
\* Downloader is constructed, the only fetches are those of the tokenizer
\* assets, the preprocessing tool is never invoked, and the exception raised
\* is the unrecognized-dataset error naming the dataset and listing all keys.
C3_UnrecognizedDataset ==
  LET key == LowerName
  IN ~IsValidKey(key) =>
       \A p \in Procs :
         /\ pc[p] \in { "idle", "vocab_isfile", "vocab_wget", "merge_isfile",
                        "merge_wget", "lookup", "raised", "killed" }
         /\ d[p] = None
         /\ \A k \in 1..Len(log[p]) :
              /\ ~IsTokenize(log[p][k])
              /\ log[p][k][1] # "isdir"
              /\ IsWget(log[p][k]) => IsAssetWget(log[p][k])
         /\ pc[p] = "raised" =>
              err[p] = [ type |-> "NotImplementedError",
                         dataset |-> Str(args.dataset_name),
                         choices |-> ValidKeys ]

\* C3 witness: prepare_dataset("not_a_real_dataset") has raised.
C3_Witness ==
  \E p \in Procs :
    /\ pc[p] = "raised"
    /\ Str(args.dataset_name) = "not_a_real_dataset"
    /\ err[p].type = "NotImplementedError"

\* C4: a dataset_name whose lowercase form is a registry key, given all in
\* upper or all in lower case, never raises the unrecognized-dataset error,
\* and the Downloader constructed for it has the name, urls and num_docs of
\* the class registered under the lowercase key; the keys whose spellings the
\* runs are given are exactly the registry's (a fact of the tables, looked at
\* in the initial states).
C4_CaseInsensitive ==
  /\ (\A p \in Procs : calls[p] = 0) =>
       \A j \in 1..Len(DATA_DOWNLOADERS) :
         \E k \in KeySpellings : Str(k) = DATA_DOWNLOADERS[j][1]
  /\ (\E p \in Procs : err[p].type = "NotImplementedError" \/ d[p] # None) =>
       LET key   == LowerName
           given == Str(args.dataset_name)
       IN ( /\ IsValidKey(key)
            /\ given = Str(upper(args.dataset_name)) \/ given = key )
          => \A p \in Procs :
               /\ err[p].type # "NotImplementedError"
               /\ d[p] # None =>
                    \E j \in 1..Len(DATA_DOWNLOADERS) :
                      /\ DATA_DOWNLOADERS[j][1] = key
                      /\ Value(d[p]).name = DATA_DOWNLOADERS[j][2].name
                      /\ Value(d[p]).urls = DATA_DOWNLOADERS[j][2].urls
                      /\ Value(d[p]).num_docs = DATA_DOWNLOADERS[j][2].num_docs

\* C4 witness: a Downloader constructed for a key given in upper case.
C4_Witness ==
  \E p \in Procs :
    /\ d[p] # None
    /\ Str(args.dataset_name) = "YOUTUBE_SUBTITLES"
    /\ Value(d[p]).name = "youtube_subtitles"

\* The local path a tokenizer asset is fetched to.
AssetPath(e) ==
  IF e[2] = "https://s3.amazonaws.com/models.huggingface.co/bert/gpt2-vocab.json"
  THEN "./data/gpt2-vocab.json" ELSE "./data/gpt2-merges.txt"

\* C5: a tokenizer asset is fetched exactly when the check just before found
\* it absent: never after a check that found it, so not at all when both are
\* there; for a tokenizer type other than the default nothing is checked or
\* fetched, and an unspecified type is checked like the default one.
C5_TokenizerData ==
  \A p \in Procs :
    LET L == log[p]
        default == \/ args.tokenizer_type = None
                   \/ args.tokenizer_type = { "GPT2BPETokenizer" }
    IN /\ ~default =>
            \A k \in 1..Len(L) : ~IsAssetWget(L[k]) /\ L[k][1] # "isfile"
       /\ \A k \in 1..Len(L) :
            /\ IsAssetWget(L[k]) =>
                 /\ L[k][4] = AssetPath(L[k])
                 /\ k > 1
                 /\ L[k - 1] = << "isfile", AssetPath(L[k]), "False" >>
            /\ (L[k][1] = "isfile" /\ L[k][3] = "False" /\ k < Len(L)) =>
                 IsAssetWget(L[k + 1]) /\ AssetPath(L[k + 1]) = L[k][2]
            /\ (L[k][1] = "isfile" /\ L[k][3] = "True" /\ k < Len(L)) =>
                 ~(IsAssetWget(L[k + 1]) /\ AssetPath(L[k + 1]) = L[k][2])
       /\ (default /\ pc[p] \in { "lookup", "exists", "returned", "raised" }) =>
            /\ \E k \in 1..Len(L) :
                 L[k][1] = "isfile" /\ L[k][2] = "./data/gpt2-vocab.json"
            /\ \E k \in 1..Len(L) :
                 L[k][1] = "isfile" /\ L[k][2] = "./data/gpt2-merges.txt"

\* C5 witness: with no tokenizer type given, the vocabulary file was found
\* and not fetched, the merge file was found absent and fetched.
C5_Witness ==
  \E p \in Procs :
    /\ args.tokenizer_type = None
    /\ Len(log[p]) >= 4
    /\ log[p][2] = << "isfile", "./data/gpt2-vocab.json", "True" >>
    /\ log[p][3] = << "isfile", "./data/gpt2-merges.txt", "False" >>
    /\ IsAssetWget(log[p][4])

\* Whether word w is one of the words of command e.
HasWord(e, w) == \E j \in 1..Len(e) : e[j] = w

\* C6: every command line handed to the preprocessing tool has --append-eod,
\* and has --num-docs exactly when the descriptor's num_docs is not None,
\* followed by that count (517401 for enron).
C6_TokenizeFlags ==
  \A p \in Procs :
    \A k \in 1..Len(log[p]) :
      IsTokenize(log[p][k]) =>
        LET e  == log[p][k]
            nd == Value(d[p]).num_docs
        IN /\ HasWord(e, "--append-eod")
           /\ HasWord(e, "--num-docs") <=> nd # None
           /\ nd # None =>
                \E j \in 1..(Len(e) - 1) :
                  e[j] = "--num-docs" /\ e[j + 1] = ToString(Value(nd))
           /\ Value(d[p]).name = "enron" =>
                \E j \in 1..(Len(e) - 1) :
                  e[j] = "--num-docs" /\ e[j + 1] = "517401"

\* C6 witness: prepare() has returned after handing the preprocessing tool
\* a command line with --append-eod and a document count.
C6_Witness ==
  \E p \in Procs :
    /\ pc[p] = "returned"
    /\ IsTokenize(log[p][Len(log[p])])
    /\ HasWord(log[p][Len(log[p])], "--append-eod")
    /\ HasWord(log[p][Len(log[p])], "--num-docs")

\* The paths p's invocation checked, created and fetched to lie in the
\* directory <data_dir>/<name>.
LayoutIs(p, name) ==
  LET dir == PathStr(InitDataDir(args.data_dir)) \o "/" \o name
      obj == Value(d[p])
  IN \A k \in 1..Len(log[p]) :
       LET e == log[p][k]
       IN /\ e[1] = "isdir" => e[2] = dir
          /\ (e[1] = "makedirs" /\ k > 1) => e[2] = dir
          /\ (IsWget(e) /\ ~IsAssetWget(e)) =>
               \E u \in 1..Len(obj.urls) :
                 e[4] = dir \o "/" \o basename(obj.urls[u])

\* The dataset_name the caller passed is a registry key as stored.
PassedKey == IsValidKey(Str(args.dataset_name))

\* C7 as stated: for a registry key k passed as dataset_name, the Downloader
\* has name k and the directory checked, created and filled is <data_dir>/k.
C7_Original ==
  PassedKey =>
    \A p \in Procs :
      d[p] # None =>
        /\ Value(d[p]).name = Str(args.dataset_name)
        /\ LayoutIs(p, Str(args.dataset_name))

\* C7 amended: that holds for every registry key except "pile_subset", whose
\* class is named "pile_00": prepare_dataset("pile_subset") checks, creates
\* and fills <data_dir>/pile_00.
C7_LayoutByName ==
  PassedKey =>
    \A p \in Procs :
      d[p] # None =>
        LET k == Str(args.dataset_name)
            name == IF k = "pile_subset" THEN "pile_00" ELSE k
        IN /\ Value(d[p]).name = name
           /\ LayoutIs(p, name)

\* C7 witness: prepare_dataset("pile_subset") has fetched its file into
\* <data_dir>/pile_00, and so has another key into the directory of its key.
C7_Witness ==
  \E p \in Procs :
    /\ pc[p] = "returned"
    /\ SawAbsent(p)
    /\ Str(args.dataset_name) = "pile_subset"
    /\ AfterExists(p)[2][4] = "./data/pile_00/00.jsonl.zst"

\* p's invocation is inside download() or past it.
Downloading(p) == i[p] >= 1

\* C8: once download() has created the directory, the invocation never ends
\* in an exception, whatever the commands' exit statuses: it is fetching,
\* about to tokenize, returned (or was killed from outside); and when it
\* has returned, every URL has been fetched once and the preprocessing tool
\* has been invoked.
C8_FailuresPassSilently ==
  \A p \in Procs :
    Downloading(p) =>
      /\ pc[p] \in { "download_wget", "tokenize", "returned", "killed" }
      /\ err[p] = NoError
      /\ pc[p] = "returned" =>
           LET eff == AfterExists(p)
               n   == Len(Value(d[p]).urls)
           IN /\ Len(eff) = n + 2
              /\ \A k \in 1..n :
                   IsWget(eff[k + 1]) /\ eff[k + 1][2] = UrlStr(Value(d[p]).urls[k])
              /\ IsTokenize(eff[n + 2])

\* C8 witness: an operator working alone has run prepare() once on a
\* dataset with several URLs; no tokenizer asset was fetched, a fetch of
\* download() exited non-zero, and still the preprocessing tool ran (its
\* output is there) and prepare() returned normally.
C8_Witness ==
  \E p \in Procs :
    /\ \A q \in Procs : q # p => quota[q] = 0
    /\ calls[p] = 1
    /\ pc[p] = "returned"
    /\ failed[p]
    /\ Downloading(p)
    /\ Len(Value(d[p]).urls) > 1
    /\ \A k \in 1..Len(log[p]) : ~IsAssetWget(log[p][k])
    /\ OutputPrefix(Value(d[p])) \in tokenized

\* The dataset directories: the directories right under the data directory.
DatasetDirs == { x \in dirs : Parent(x) = InitDataDir(args.data_dir) }

\* An abandoned dataset: its directory is there, no tokenized output is, and
\* no invocation is inside download() or tokenize().
Abandoned(dir, D, T, P) ==
  /\ dir \in D
  /\ \A x \in T : ~IsUnder(x, dir)
  /\ \A p \in Procs : P[p] \notin { "download_makedirs", "download_wget", "tokenize" }

\* C9: an abandoned dataset stays abandoned until its directory is removed:
\* no step of any later invocation fetches into it or tokenizes it.
C9_NoRecovery ==
  [][ \A dir \in DatasetDirs :
        Abandoned(dir, dirs, tokenized, pc) =>
          \/ dir \notin dirs'
          \/ /\ Abandoned(dir, dirs', tokenized', pc')
             /\ { x \in files' : IsUnder(x, dir) } = { x \in files : IsUnder(x, dir) }
             /\ \A p \in Procs :
                  \/ log'[p] = log[p]
                  \/ /\ ~IsTokenize(log'[p][Len(log'[p])])
                     /\ IsWget(log'[p][Len(log'[p])]) =>
                          IsAssetWget(log'[p][Len(log'[p])]) ]_vars

\* C9 witness: one invocation was killed in the middle of its fetches, and
\* a later one has returned after finding the directory, with the dataset
\* abandoned: files missing, nothing tokenized.
C9_Witness ==
  \E p, q \in Procs :
    /\ p # q
    /\ pc[p] = "killed"
    /\ Downloading(p)
    /\ pc[q] = "returned"
    /\ SawPresent(q)
    /\ IsdirAt(q) = Len(log[q])
    /\ Abandoned(DatasetDir(Value(d[q])), dirs, tokenized, pc)

\* C10: when two invocations have both found the directory absent, neither
\* excludes the other: their effects are the same commands on the same
\* paths, and when both have returned each has fetched every URL to
\* <base_dir>/<name>/<basename(url)> and has invoked the preprocessing tool
\* on the output prefix <base_dir>/<name>/<name>.
C10_RaceDuplicates ==
  \A p, q \in Procs :
    (p # q /\ SawAbsent(p) /\ SawAbsent(q)) =>
      /\ \A k \in 1..Len(AfterExists(p)) :
           k <= Len(AfterExists(q)) => AfterExists(p)[k] = AfterExists(q)[k]
      /\ (pc[p] = "returned" /\ pc[q] = "returned") =>
           LET obj == Value(d[p])
               n   == Len(obj.urls)
               eff == AfterExists(q)
           IN /\ Len(eff) = n + 2
              /\ \A k \in 1..n : eff[k + 1] = ExpectedFetch(obj, k)
              /\ \E j \in 1..(Len(eff[n + 2]) - 1) :
                   /\ eff[n + 2][j] = "--output-prefix"
                   /\ eff[n + 2][j + 1] = DirText(obj) \o "/" \o obj.name

\* C10 witness: both invocations have evaluated exists() as false and
\* neither has created the directory yet.
C10_Witness ==
  /\ \A p \in Procs :
       /\ pc[p] = "download_makedirs"
       /\ SawAbsent(p)
       /\ DatasetDir(Value(d[p])) \notin dirs

====
